---- MODULE Spec2Model ----
(***************************************************************************)
(* Model of raiden/ui/cli.py: the click commands app() and run().          *)
(*                                                                         *)
(* run() binds the listen socket inside a `with` scope, invokes app() to   *)
(* resolve the account, unlock its key, parse the RPC endpoint and build   *)
(* the App, then spawns the discovery registration greenlet, registers the *)
(* registry on chain, starts the optional API server and console, joins    *)
(* the registration greenlet, installs the signal handlers and waits for   *)
(* the shutdown event before stopping the node.                            *)
(*                                                                         *)
(* Strings whose content the code inspects (the RPC endpoint) are tuples   *)
(* of one-character strings.  The orchestrator is a sequential program:    *)
(* pc is the statement it is at; the registration greenlet and the gevent  *)
(* signal handlers run only while the orchestrator is blocked in the hub.  *)
(***************************************************************************)
EXTENDS Integers, Sequences, FiniteSets, TLC

\* ------------------------------------------------------------------ bounds
MaxAccounts == 2
MaxPrompts == 2
MaxSignals == 2

\* ------------------------------------------------------- program constants
\* unlock_tries = 3 (cli.py:225)
UnlockTries == 3
\* rpc_port = 80 (cli.py:252)
HttpPort == 80
\* rpc_port = 443 (cli.py:255)
HttpsPort == 443

\* --max-unresponsive-time default=120 (cli.py:94)
DefaultMaxUnresponsiveTime == 120
\* --send-ping-time default=60 (cli.py:103)
DefaultSendPingTime == 60
\* raiden.settings.DEFAULT_NAT_KEEPALIVE_RETRIES, imported at cli.py:22
DEFAULT_NAT_KEEPALIVE_RETRIES == 5
\* raiden.settings.DEFAULT_NAT_KEEPALIVE_TIMEOUT, the default of
\* App.DEFAULT_CONFIG['protocol']['nat_keepalive_timeout']
DEFAULT_NAT_KEEPALIVE_TIMEOUT == 5

\* ------------------------------------------------------------------ values
None == "None"

\* --address defaults to None (cli.py:34): no address is written 0, and so is
\* a private key that was never unlocked.
NoAddress == 0

\* --password-file defaults to None (cli.py:135)
NoPasswordFile == [given |-> FALSE, lines |-> <<>>]

\* The keystore holds the addresses 1..n; n+1 stands for an address that has
\* no keystore file.
AddressUniverse == 1..(MaxAccounts + 1)

\* The passwords a line of the password file or a passphrase entry can be:
\* the one that unlocks the account, a wrong one, and the empty string.
Good == "good"
Bad == "bad"
Empty == ""

\* Contents of --password-file, as the list of its lines (splitlines()).
PasswordFiles ==
    { <<>>, <<Empty>>, <<Good>>, <<Bad>>, <<Empty, Good>>, <<Bad, Good>> }

SIGNALS == {"SIGQUIT", "SIGTERM", "SIGINT"}

\* --eth-rpc-endpoint values, as character tuples.
HttpPrefix == <<"h", "t", "t", "p", ":", "/", "/">>
HttpsPrefix == <<"h", "t", "t", "p", "s", ":", "/", "/">>
Endpoints ==
    { <<"n">>,
      <<"n", ":", "8">>,
      HttpPrefix \o <<"n">>,
      HttpPrefix \o <<"n", ":", "8", "1">>,
      HttpsPrefix \o <<"n">>,
      HttpsPrefix \o <<"n", ":", "9">> }

\* --rpccorsdomain default="http://localhost:*/*" (cli.py:73)
DefaultCors ==
    HttpPrefix \o <<"l", "o", "c", "a", "l", "h", "o", "s", "t", ":", "*", "/", "*">>

\* The dict object App.DEFAULT_CONFIG['protocol'] lives at this heap address;
\* NullRef is the address of no object.
ProtocolRef == "protocol@DEFAULT_CONFIG"
NullRef == "null"

\* raiden.app.App.DEFAULT_CONFIG, reduced to the keys cli.py writes
DefaultConfigDict ==
    [console |-> FALSE, rpc |-> FALSE, socket |-> "none",
     privatekey_hex |-> NoAddress, database_path |-> "",
     protocol |-> ProtocolRef]

DefaultProtocolDict ==
    [nat_keepalive_retries |-> DEFAULT_NAT_KEEPALIVE_RETRIES,
     nat_keepalive_timeout |-> DEFAULT_NAT_KEEPALIVE_TIMEOUT]

\* the local `config` before cli.py:173 binds it
NoConfig ==
    [console |-> FALSE, rpc |-> FALSE, socket |-> "none",
     privatekey_hex |-> NoAddress, database_path |-> "",
     protocol |-> NullRef]

VARIABLES
    \* command line inputs (kwargs of run()/app())
    keystore,           \* accmgr.accounts: the sequence of keystore addresses
    address,            \* --address, later the selected address
    password_file,      \* --password-file: whether given, and the file's lines
    eth_rpc_endpoint,   \* --eth-rpc-endpoint
    rpc,                \* --rpc/--no-rpc
    console,            \* --console/--no-console
    rpccorsdomain,      \* --rpccorsdomain
    max_unresponsive_time, \* --max-unresponsive-time
    send_ping_time,     \* --send-ping-time
    \* configuration
    DEFAULT_CONFIG,     \* App.DEFAULT_CONFIG (the top-level dict)
    heap,               \* the nested dict objects, by address
    config,             \* the local `config` of app()
    \* orchestrator
    pc,                 \* statement the orchestrator is at
    termination,        \* "running", "exit0", "exit1", "unhandled", "killed"
    fault,              \* the exception that left run() unhandled, or None
    printed,            \* the fatal messages printed by app()
    sock,               \* mapped_socket: "none", "open", "closed"
    \* app() locals
    password,           \* password read from the file, or None
    unlock_tries,       \* remaining interactive retries
    privatekey_bin,     \* NoAddress, or the address whose key was unlocked
    rpc_host,           \* host of the RPC endpoint (<<>> before line 258/260)
    rpc_port,           \* port of the RPC endpoint, meaningful when bound
    rpc_port_bound,     \* whether the local rpc_port has been assigned
    blockchain_service, \* BlockChainService constructed
    app_,               \* App constructed and returned to run()
    \* run() locals and collaborators
    registry_event,     \* registration greenlet: "none", "spawned", "running", "done", "failed"
    registry_registered,\* register_registry() has returned
    api_server,         \* API server greenlet spawned
    console_started,    \* Console started
    domain_list,        \* the CORS domain list of cli.py:322-328
    event,              \* gevent Event: "none", "unset", "set"
    handlers,           \* signals with a gevent handler installed
    pending,            \* signals received whose handler has not run yet
    \* history
    prompts,            \* index prompts answered
    idx,                \* the last index entered at the prompt
    unlock_attempts,    \* calls of accmgr.get_privkey
    interactive_attempts,\* of those, the calls made from the retry loop
    spawn_count,        \* gevent.spawn(discovery.register) calls
    register_calls,     \* discovery.register invocations
    set_transitions,    \* times the event went from unset to set
    stop_count,         \* app_.stop calls
    delivered,          \* signals delivered to the process
    handler_runs,       \* gevent signal handler invocations
    fatal,              \* the fatal startup condition met, or None
    milestones          \* startup states reached, in order

inputs == <<keystore, password_file, eth_rpc_endpoint, rpc, console,
            rpccorsdomain, max_unresponsive_time, send_ping_time>>
cfg == <<DEFAULT_CONFIG, heap, config>>
creds == <<address, password, unlock_tries, privatekey_bin, prompts, idx,
           unlock_attempts, interactive_attempts>>
net == <<rpc_host, rpc_port, rpc_port_bound, blockchain_service, app_>>
task == <<registry_event, spawn_count, register_calls>>
subsys == <<registry_registered, api_server, console_started, domain_list>>
sig == <<event, handlers, pending, set_transitions, delivered, handler_runs>>
ctl == <<pc, termination, fault, printed, fatal, sock, stop_count, milestones>>
vars == <<inputs, cfg, creds, net, task, subsys, sig, ctl>>


\* ----------------------------------------------------------------- helpers
Range(s) == { s[i] : i \in 1..Len(s) }

\* str.startswith(prefix)
StartsWith(s, p) == Len(s) >= Len(p) /\ SubSeq(s, 1, Len(p)) = p

\* `c in s`
Contains(s, c) == \E i \in 1..Len(s) : s[i] = c

\* s[n:]
Drop(s, n) == SubSeq(s, n + 1, Len(s))

\* index of the last occurrence of c in s (0 when absent)
LastIndexOf(s, c) ==
    IF Contains(s, c)
    THEN CHOOSE i \in 1..Len(s) : s[i] = c /\ \A j \in (i + 1)..Len(s) : s[j] # c
    ELSE 0

DigitValue(d) ==
    CASE d = "0" -> 0 [] d = "1" -> 1 [] d = "2" -> 2 [] d = "3" -> 3
      [] d = "4" -> 4 [] d = "5" -> 5 [] d = "6" -> 6 [] d = "7" -> 7
      [] d = "8" -> 8 [] d = "9" -> 9

RECURSIVE ParseInt(_)
ParseInt(s) ==
    IF Len(s) = 0 THEN 0
    ELSE 10 * ParseInt(SubSeq(s, 1, Len(s) - 1)) + DigitValue(s[Len(s)])

\* raiden.utils.split_endpoint: "host:port" -> (host, int(port))
split_endpoint(endpoint) ==
    LET i == LastIndexOf(endpoint, ":")
    IN  [host |-> SubSeq(endpoint, 1, i - 1),
         port |-> ParseInt(Drop(endpoint, i))]

\* AccountManager.address_in_keystore(address)
address_in_keystore(accounts, addr) ==
    addr # NoAddress /\ addr \in Range(accounts)

\* a get_privkey that accepts whatever password it is given
PasswordUnlocksAny(pw) == TRUE

\* accmgr.get_privkey raises ValueError unless the password is the right one
PasswordUnlocks(pw) == pw = Good

\* Python truthiness of `password`: None and '' are false
Truthy(pw) == pw # None /\ pw # Empty

\* socket_factory's __exit__: the mapped socket is closed
SocketClose(s) == IF s = "open" THEN "closed" ELSE s

\* A scope that closes the socket only when the block runs to its end
LeaveScopeOnReturnOnly(how, s) == IF how = "return" THEN SocketClose(s) ELSE s

\* The `with socket_factory(...)` statement: __exit__ runs however the block
\* is left ("return", "SystemExit" or "exception").
LeaveScope(how, s) == SocketClose(s)

\* sys.exit() without the status
TerminationOfExitZero(how) ==
    CASE how = "return" -> "exit0"
      [] how = "SystemExit" -> "exit0"
      [] how = "exception" -> "unhandled"

\* How the process ends when run() is left by `how`.
TerminationOf(how) ==
    CASE how = "return" -> "exit0"
      [] how = "SystemExit" -> "exit1"
      [] how = "exception" -> "unhandled"

\* run() is left: by returning, by sys.exit(1) or by an exception nobody
\* catches.  Everything unwinds through the `with` block when it was entered.
Leave(how, exc) ==
    /\ pc' = "done"
    /\ termination' = TerminationOf(how)
    /\ fault' = exc
    /\ sock' = LeaveScope(how, sock)

Goto(l) ==
    /\ pc' = l
    /\ UNCHANGED <<termination, fault>>

Reached(m) == milestones' = Append(milestones, m)

Live == termination = "running"

\* -------------------------------------------------------------------- Init
\* the state of the process when run() is entered, whatever the arguments
Start ==
    /\ DEFAULT_CONFIG = DefaultConfigDict
    /\ heap = [r \in {ProtocolRef} |-> DefaultProtocolDict]
    /\ config = NoConfig
    /\ domain_list = <<>>
    /\ idx = 0
    /\ pc = "start"
    /\ termination = "running"
    /\ fault = None
    /\ printed = {}
    /\ sock = "none"
    /\ password = None
    /\ unlock_tries = UnlockTries
    /\ privatekey_bin = NoAddress
    /\ rpc_host = <<>>
    /\ rpc_port = 0
    /\ rpc_port_bound = FALSE
    /\ blockchain_service = FALSE
    /\ app_ = FALSE
    /\ registry_event = "none"
    /\ registry_registered = FALSE
    /\ api_server = FALSE
    /\ console_started = FALSE
    /\ event = "none"
    /\ handlers = {}
    /\ pending = {}
    /\ prompts = 0
    /\ unlock_attempts = 0
    /\ interactive_attempts = 0
    /\ spawn_count = 0
    /\ register_calls = 0
    /\ set_transitions = 0
    /\ stop_count = 0
    /\ delivered = 0
    /\ handler_runs = 0
    /\ fatal = None
    /\ milestones = <<>>

Init ==
    /\ \E n \in 0..MaxAccounts : keystore = [i \in 1..n |-> i]
    /\ address \in {NoAddress} \cup AddressUniverse
    /\ password_file \in {NoPasswordFile}
                         \cup { [given |-> TRUE, lines |-> f] : f \in PasswordFiles }
    /\ eth_rpc_endpoint \in Endpoints
    /\ rpc \in BOOLEAN
    /\ console \in BOOLEAN
    /\ rpccorsdomain = DefaultCors
    /\ max_unresponsive_time = DefaultMaxUnresponsiveTime
    /\ send_ping_time = DefaultSendPingTime
    /\ Start

\* ------------------------------------------------------------------- run()
\* app() invoked before the socket scope is entered
BindSocketLate ==
    /\ Live /\ pc = "start"
    /\ Goto("app")
    /\ UNCHANGED <<inputs, cfg, creds, net, task, subsys, sig, printed, fatal, sock,
                   stop_count, milestones>>

\* cli.py:307-309  split the listen address, enter the socket scope
BindSocket ==
    /\ Live /\ pc = "start"
    /\ sock' = "open"
    /\ Goto("app")
    /\ Reached("SocketBound")
    /\ UNCHANGED <<inputs, cfg, creds, net, task, subsys, sig, printed, fatal,
                   stop_count>>

\* ------------------------------------------------------------------- app()
\* cli.py:173  dict.copy(): a new top-level dict holding the same values, so
\* the same nested objects
DictCopy(d) == d

\* cli.py:173-180  config = App.DEFAULT_CONFIG.copy(); config[...] = ...
AssembleConfig(defaults) ==
    [DictCopy(defaults) EXCEPT !.console = console, !.rpc = rpc,
                               !.socket = "mapped"]

\* cli.py:182-184  config['protocol'][...] = ...: stores into the dict object
\* config['protocol'] refers to
StoreProtocol(h, ref) ==
    [h EXCEPT ![ref] =
        [@ EXCEPT !.nat_keepalive_retries =
                      max_unresponsive_time \div DEFAULT_NAT_KEEPALIVE_RETRIES,
                  !.nat_keepalive_timeout = send_ping_time]]

\* cli.py:164-188  assemble the config, load the keystore
LoadAccounts ==
    /\ Live /\ pc = "app"
    /\ config' = AssembleConfig(DEFAULT_CONFIG)
    /\ heap' = StoreProtocol(heap, AssembleConfig(DEFAULT_CONFIG).protocol)
    /\ UNCHANGED DEFAULT_CONFIG
    /\ IF Len(keystore) = 0
       THEN /\ fatal' = "NoAccountsFound"
            /\ Leave("exception", "RuntimeError")
       ELSE /\ Goto("select")
            /\ UNCHANGED <<sock, fatal>>
    /\ UNCHANGED <<inputs, creds, net, task, subsys, sig, printed, stop_count,
                   milestones>>

\* cli.py:190-202  is the given address in the keystore?
SelectAccount ==
    /\ Live /\ pc = "select"
    /\ IF address_in_keystore(keystore, address)
       THEN Goto("password")
       ELSE Goto("prompt")
    /\ UNCHANGED <<inputs, cfg, creds, net, task, subsys, sig, printed, fatal, sock,
                   stop_count, milestones>>

\* the bounds check without its `idx >= 0` half: addresses[-1] is the last one
PromptIndexAcceptsNegative ==
    /\ Live /\ pc = "prompt"
    /\ \E entered \in -1..Len(keystore) :
         IF entered < Len(keystore)
         THEN /\ address' = IF entered >= 0 THEN keystore[entered + 1]
                            ELSE keystore[Len(keystore) + 1 + entered]
              /\ idx' = entered
              /\ Goto("password")
         ELSE /\ prompts < MaxPrompts
              /\ address' = address
              /\ idx' = entered
              /\ Goto("prompt")
    /\ prompts' = prompts + 1
    /\ UNCHANGED <<inputs, cfg, password, unlock_tries, privatekey_bin,
                   unlock_attempts, interactive_attempts, net, task, subsys,
                   sig, printed, fatal, sock, stop_count, milestones>>

\* cli.py:204-212  one answer to the index prompt (0-based idx)
PromptIndex ==
    /\ Live /\ pc = "prompt"
    /\ \E entered \in -1..Len(keystore) :
         IF entered >= 0 /\ entered < Len(keystore)
         THEN /\ address' = keystore[entered + 1]
              /\ idx' = entered
              /\ Goto("password")
         ELSE /\ prompts < MaxPrompts
              /\ address' = address
              /\ idx' = entered
              /\ Goto("prompt")
    /\ prompts' = prompts + 1
    /\ UNCHANGED <<inputs, cfg, password, unlock_tries, privatekey_bin,
                   unlock_attempts, interactive_attempts, net, task, subsys,
                   sig, printed, fatal, sock, stop_count, milestones>>

\* cli.py:214-217  password = password_file.read().splitlines()[0]
ReadPassword ==
    /\ Live /\ pc = "password"
    /\ IF ~password_file.given
       THEN /\ password' = None
            /\ Goto("unlock_loop")
            /\ UNCHANGED sock
       ELSE IF Len(password_file.lines) = 0
       THEN /\ password' = None
            /\ Leave("exception", "IndexError")
       ELSE /\ password' = password_file.lines[1]
            /\ Goto(IF Truthy(password_file.lines[1]) THEN "unlock_file"
                    ELSE "unlock_loop")
            /\ UNCHANGED sock
    /\ UNCHANGED <<inputs, cfg, address, unlock_tries, privatekey_bin, prompts, idx,
                   unlock_attempts, interactive_attempts, net, task, subsys,
                   sig, printed, fatal, stop_count, milestones>>

\* cli.py:217-223  the single unlock attempt with the password of the file
UnlockFromFile ==
    /\ Live /\ pc = "unlock_file"
    /\ unlock_attempts' = unlock_attempts + 1
    /\ IF PasswordUnlocks(password)
       THEN /\ privatekey_bin' = address
            /\ Goto("endpoint")
            /\ Reached("CredentialsResolved")
            /\ UNCHANGED <<printed, fatal, sock>>
       ELSE /\ printed' = printed \cup {"IncorrectPasswordInFile"}
            /\ fatal' = "IncorrectPassword"
            /\ Leave("SystemExit", None)
            /\ UNCHANGED <<privatekey_bin, milestones>>
    /\ UNCHANGED <<inputs, cfg, address, password, unlock_tries, prompts, idx,
                   interactive_attempts, net, task, subsys, sig, stop_count>>

\* the bound checked one retry too late
ExhaustedLate(tries) == tries < 0

\* cli.py:232  `if unlock_tries == 0`: no retry is left
Exhausted(tries) == tries = 0

\* cli.py:225-243  one iteration of the interactive unlock loop
\* (get_privkey(address) asks for the passphrase itself)
UnlockInteractive ==
    /\ Live /\ pc = "unlock_loop"
    /\ unlock_attempts' = unlock_attempts + 1
    /\ interactive_attempts' = interactive_attempts + 1
    /\ \E passphrase \in {Good, Bad, Empty} :
         IF PasswordUnlocks(passphrase)
         THEN /\ privatekey_bin' = address
              /\ Goto("endpoint")
              /\ Reached("CredentialsResolved")
              /\ UNCHANGED <<printed, fatal, sock, unlock_tries>>
         ELSE IF Exhausted(unlock_tries)
         THEN /\ printed' = printed \cup {"ExhaustedUnlockAttempts"}
              /\ fatal' = "ExhaustedRetries"
              /\ Leave("SystemExit", None)
              /\ UNCHANGED <<privatekey_bin, milestones, unlock_tries>>
         ELSE /\ unlock_tries' = unlock_tries - 1
              /\ Goto("unlock_loop")
              /\ UNCHANGED <<privatekey_bin, milestones, printed, fatal, sock>>
    /\ UNCHANGED <<inputs, cfg, address, password, prompts, idx, net, task, subsys, sig,
                   stop_count>>

\* cli.py:250-255  the endpoint without its http:// or https:// prefix
StripPrefix(s) ==
    IF StartsWith(s, HttpPrefix) THEN Drop(s, Len(HttpPrefix))
    ELSE IF StartsWith(s, HttpsPrefix) THEN Drop(s, Len(HttpsPrefix))
    ELSE s

\* cli.py:250-255  whether a prefix assigned rpc_port, and to what
PrefixBindsPort(s) == StartsWith(s, HttpPrefix) \/ StartsWith(s, HttpsPrefix)

\* the two defaults taken for one another
PrefixPortSwapped(s) ==
    IF StartsWith(s, HttpPrefix) THEN HttpsPort
    ELSE IF StartsWith(s, HttpsPrefix) THEN HttpPort
    ELSE 0

PrefixPort(s) ==
    IF StartsWith(s, HttpPrefix) THEN HttpPort
    ELSE IF StartsWith(s, HttpsPrefix) THEN HttpsPort
    ELSE 0

\* cli.py:248-260  the locals rpc_host and rpc_port after the endpoint is parsed
parse_rpc_endpoint(s) ==
    LET endpoint == StripPrefix(s)
    IN  IF ~Contains(endpoint, ":")
        THEN [host |-> endpoint,
              port |-> PrefixPort(s),
              bound |-> PrefixBindsPort(s)]
        ELSE [host |-> split_endpoint(endpoint).host,
              port |-> split_endpoint(endpoint).port,
              bound |-> TRUE]

\* cli.py:245-264  store the key in the config, parse --eth-rpc-endpoint
ParseRpcEndpoint ==
    /\ Live /\ pc = "endpoint"
    /\ LET r == parse_rpc_endpoint(eth_rpc_endpoint)
       IN  /\ rpc_host' = r.host
           /\ rpc_port' = r.port
           /\ rpc_port_bound' = r.bound
           /\ IF r.bound
              THEN Reached("NetworkResolved")
              ELSE UNCHANGED milestones
    /\ config' = [config EXCEPT !.privatekey_hex = privatekey_bin]
    /\ Goto("blockchain")
    /\ UNCHANGED <<inputs, DEFAULT_CONFIG, heap, creds, blockchain_service,
                   app_, task, subsys, sig, printed, fatal, sock, stop_count>>

\* the ValueError of the registry lookup printed but not followed by an exit
ConstructBlockChainServiceNoExit ==
    /\ Live /\ pc = "blockchain"
    /\ IF ~rpc_port_bound
       THEN /\ Leave("exception", "UnboundLocalError")
            /\ UNCHANGED <<blockchain_service, printed, fatal>>
       ELSE \E registry_has_code \in BOOLEAN :
              IF registry_has_code
              THEN /\ blockchain_service' = TRUE
                   /\ Goto("construct_app")
                   /\ UNCHANGED <<printed, fatal, sock>>
              ELSE /\ printed' = printed \cup {"RegistryLookupFailed"}
                   /\ fatal' = "RegistryLookupFailed"
                   /\ Goto("construct_app")
                   /\ UNCHANGED <<blockchain_service, sock>>
    /\ UNCHANGED <<inputs, cfg, creds, rpc_host, rpc_port, rpc_port_bound, app_,
                   task, subsys, sig, stop_count, milestones>>

\* cli.py:266-280  BlockChainService(privatekey_bin, registry, host, port)
ConstructBlockChainService ==
    /\ Live /\ pc = "blockchain"
    /\ IF ~rpc_port_bound
       THEN /\ Leave("exception", "UnboundLocalError")
            /\ UNCHANGED <<blockchain_service, printed, fatal>>
       ELSE \E registry_has_code \in BOOLEAN :
              IF registry_has_code
              THEN /\ blockchain_service' = TRUE
                   /\ Goto("construct_app")
                   /\ UNCHANGED <<printed, fatal, sock>>
              ELSE /\ printed' = printed \cup {"RegistryLookupFailed"}
                   /\ fatal' = "RegistryLookupFailed"
                   /\ Leave("SystemExit", None)
                   /\ UNCHANGED blockchain_service
    /\ UNCHANGED <<inputs, cfg, creds, rpc_host, rpc_port, rpc_port_bound, app_,
                   task, subsys, sig, stop_count, milestones>>

\* cli.py:282-294  discovery, database path, App(config, chain, discovery)
ConstructApp ==
    /\ Live /\ pc = "construct_app"
    /\ app_' = TRUE
    /\ config' = [config EXCEPT !.database_path = "~/.raiden/log.db"]
    /\ Goto("spawn")
    /\ Reached("NodeConstructed")
    /\ UNCHANGED <<inputs, DEFAULT_CONFIG, heap, creds, rpc_host, rpc_port,
                   rpc_port_bound,
                   blockchain_service, task, subsys, sig, printed, fatal, sock,
                   stop_count>>

\* ------------------------------------------------------- run(), continued
\* cli.py:313-319  registry_event = gevent.spawn(app_.discovery.register, ...)
SpawnRegistration ==
    /\ Live /\ pc = "spawn"
    /\ registry_event' = "spawned"
    /\ spawn_count' = spawn_count + 1
    /\ Goto("register_registry")
    /\ Reached("RegistrationSpawned")
    /\ UNCHANGED <<inputs, cfg, creds, net, register_calls, subsys, sig, printed,
                   fatal, sock, stop_count>>

\* cli.py:320  app_.raiden.register_registry(...) is called and blocks
RegisterRegistryCall ==
    /\ Live /\ pc = "register_registry"
    /\ Goto("in_register_registry")
    /\ UNCHANGED <<inputs, cfg, creds, net, task, subsys, sig, printed, fatal, sock,
                   stop_count, milestones>>

\* the registry call made to wait for the registration greenlet
RegisterRegistryReturnAfterTask ==
    /\ Live /\ pc = "in_register_registry"
    /\ registry_event \in {"done", "failed"}
    /\ registry_registered' = TRUE
    /\ Goto("api")
    /\ UNCHANGED <<inputs, cfg, creds, net, task, api_server, console_started,
                   domain_list, sig,
                   printed, fatal, sock, stop_count, milestones>>

\* cli.py:320  register_registry returns
RegisterRegistryReturn ==
    /\ Live /\ pc = "in_register_registry"
    /\ registry_registered' = TRUE
    /\ Goto("api")
    /\ UNCHANGED <<inputs, cfg, creds, net, task, api_server, console_started,
                   domain_list, sig,
                   printed, fatal, sock, stop_count, milestones>>

\* index of the first occurrence of c in s (0 when absent)
IndexOf(s, c) ==
    IF Contains(s, c)
    THEN CHOOSE i \in 1..Len(s) : s[i] = c /\ \A j \in 1..(i - 1) : s[j] # c
    ELSE 0

\* str.split(c)
RECURSIVE Split(_, _)
Split(s, c) ==
    IF ~Contains(s, c) THEN <<s>>
    ELSE <<SubSeq(s, 1, IndexOf(s, c) - 1)>> \o Split(Drop(s, IndexOf(s, c)), c)

\* the domain list that keeps the whole option value as one domain
ParseCorsNoSplit(s) == IF Len(s) > 0 THEN <<s>> ELSE <<>>

\* cli.py:322-328  domain_list from --rpccorsdomain
ParseCors(s) ==
    IF Len(s) > 0
    THEN IF Contains(s, ",") THEN Split(s, ",") ELSE <<s>>
    ELSE <<>>

\* the API server spawned whatever the rpc flag says
StartApiAlways ==
    /\ Live /\ pc = "api"
    /\ api_server' = TRUE
    /\ domain_list' = ParseCors(rpccorsdomain)
    /\ Goto("console")
    /\ UNCHANGED <<inputs, cfg, creds, net, task, registry_registered,
                   console_started, sig, printed, fatal, sock, stop_count, milestones>>

\* cli.py:322-351  CORS domains; if rpc: spawn the API server
StartApi ==
    /\ Live /\ pc = "api"
    /\ api_server' = rpc
    /\ domain_list' = ParseCors(rpccorsdomain)
    /\ Goto("console")
    /\ UNCHANGED <<inputs, cfg, creds, net, task, registry_registered,
                   console_started, sig, printed, fatal, sock, stop_count, milestones>>

\* cli.py:353-355  if console: start the console
StartConsole ==
    /\ Live /\ pc = "console"
    /\ console_started' = console
    /\ Goto("join")
    /\ Reached("SubsystemsStarted")
    /\ UNCHANGED <<inputs, cfg, creds, net, task, registry_registered, api_server,
                   domain_list, sig, printed, fatal, sock, stop_count>>

\* the join left out
JoinRegistrationNoWait ==
    /\ Live /\ pc = "join"
    /\ Goto("event")
    /\ UNCHANGED <<inputs, cfg, creds, net, task, subsys, sig, printed, fatal, sock,
                   stop_count, milestones>>

\* a join that spawns the registration again when it failed
JoinRegistrationRespawns ==
    /\ Live /\ pc = "join"
    /\ registry_event \in {"done", "failed"}
    /\ IF registry_event = "failed"
       THEN /\ registry_event' = "spawned"
            /\ spawn_count' = spawn_count + 1
            /\ Goto("join")
       ELSE /\ Goto("event")
            /\ UNCHANGED <<registry_event, spawn_count>>
    /\ UNCHANGED <<inputs, cfg, creds, net, register_calls, subsys, sig, printed,
                   fatal, sock, stop_count, milestones>>

\* cli.py:357  registry_event.join() returns once the greenlet is dead
JoinRegistration ==
    /\ Live /\ pc = "join"
    /\ registry_event \in {"done", "failed"}
    /\ Goto("event")
    /\ UNCHANGED <<inputs, cfg, creds, net, task, subsys, sig, printed, fatal, sock,
                   stop_count, milestones>>

\* cli.py:359  event = gevent.event.Event()
CreateEvent ==
    /\ Live /\ pc = "event"
    /\ event' = "unset"
    /\ Goto("sigquit")
    /\ UNCHANGED <<inputs, cfg, creds, net, task, subsys, handlers, pending,
                   set_transitions, delivered, handler_runs, printed, fatal, sock, stop_count,
                   milestones>>

\* cli.py:360-362  gevent.signal(SIGQUIT|SIGTERM|SIGINT, event.set), in order
InstallHandler ==
    /\ Live
    /\ \/ /\ pc = "sigquit"
          /\ handlers' = handlers \cup {"SIGQUIT"}
          /\ Goto("sigterm")
          /\ UNCHANGED milestones
       \/ /\ pc = "sigterm"
          /\ handlers' = handlers \cup {"SIGTERM"}
          /\ Goto("sigint")
          /\ UNCHANGED milestones
       \/ /\ pc = "sigint"
          /\ handlers' = handlers \cup {"SIGINT"}
          /\ Goto("wait")
          /\ Reached("Running")
    /\ UNCHANGED <<inputs, cfg, creds, net, task, subsys, event, pending,
                   set_transitions, delivered, handler_runs, printed, fatal, sock, stop_count>>

\* app_.stop called after the `with` block instead of inside it
WaitReturnLeavesScope ==
    /\ Live /\ pc = "wait"
    /\ event = "set"
    /\ sock' = SocketClose(sock)
    /\ Goto("stop")
    /\ UNCHANGED <<inputs, cfg, creds, net, task, subsys, sig, printed, fatal,
                   stop_count, milestones>>

\* cli.py:363  event.wait() returns once the event is set
WaitReturn ==
    /\ Live /\ pc = "wait"
    /\ event = "set"
    /\ Goto("stop")
    /\ UNCHANGED <<inputs, cfg, creds, net, task, subsys, sig, printed, fatal, sock,
                   stop_count, milestones>>

\* cli.py:365  app_.stop(graceful=True) is called and blocks
StopCall ==
    /\ Live /\ pc = "stop"
    /\ stop_count' = stop_count + 1
    /\ Goto("stopping")
    /\ UNCHANGED <<inputs, cfg, creds, net, task, subsys, sig, printed, fatal, sock,
                   milestones>>

\* cli.py:365  stop returns; run() falls off the end of the `with` block
StopReturn ==
    /\ Live /\ pc = "stopping"
    /\ Leave("return", None)
    /\ UNCHANGED <<inputs, cfg, creds, net, task, subsys, sig, printed, fatal, stop_count,
                   milestones>>

\* ------------------------------------------------------------ the gevent hub
\* Other greenlets run only while the orchestrator is blocked in a call that
\* yields to the hub: register_registry, join, event.wait, stop.
Blocked == pc \in {"in_register_registry", "join", "wait", "stopping"}

\* the registration greenlet starts: app_.discovery.register(address, ip, port)
TaskStart ==
    /\ Live /\ Blocked
    /\ registry_event = "spawned"
    /\ registry_event' = "running"
    /\ register_calls' = register_calls + 1
    /\ UNCHANGED <<inputs, cfg, creds, net, spawn_count, subsys, sig, ctl>>

\* discovery.register returns or raises; the greenlet is dead either way
TaskFinish ==
    /\ Live /\ Blocked
    /\ registry_event = "running"
    /\ \E outcome \in {"done", "failed"} : registry_event' = outcome
    /\ UNCHANGED <<inputs, cfg, creds, net, spawn_count, register_calls, subsys,
                   sig, ctl>>

\* ------------------------------------------------------------------ signals
\* A signal reaches the process.  With a gevent handler installed it is left
\* for the hub; otherwise the default applies: SIGINT raises
\* KeyboardInterrupt in the orchestrator, SIGTERM and SIGQUIT end the process
\* on the spot, with no unwinding.
DeliverSignal ==
    /\ Live
    /\ delivered < MaxSignals
    /\ delivered' = delivered + 1
    /\ \E s \in SIGNALS :
         IF s \in handlers
         THEN /\ pending' = pending \cup {s}
              /\ UNCHANGED <<pc, termination, fault, sock>>
         ELSE IF s = "SIGINT"
         THEN /\ Leave("exception", "KeyboardInterrupt")
              /\ UNCHANGED pending
         ELSE /\ pc' = "done"
              /\ termination' = "killed"
              /\ UNCHANGED <<fault, sock, pending>>
    /\ UNCHANGED <<inputs, cfg, creds, net, task, subsys, event, handlers,
                   set_transitions, handler_runs, printed, fatal, stop_count,
                   milestones>>

\* a handler that returns without setting the event
RunHandlerNoSet ==
    /\ Live /\ Blocked
    /\ \E s \in pending :
         /\ pending' = pending \ {s}
         /\ handler_runs' = handler_runs + 1
    /\ UNCHANGED <<inputs, cfg, creds, net, task, subsys, event, handlers,
                   set_transitions, delivered, ctl>>

\* a handler that stops the node itself, once per signal
RunHandlerStops ==
    /\ Live /\ Blocked
    /\ \E s \in pending :
         /\ pending' = pending \ {s}
         /\ handler_runs' = handler_runs + 1
         /\ stop_count' = stop_count + 1
         /\ IF event = "unset"
            THEN /\ event' = "set"
                 /\ set_transitions' = set_transitions + 1
            ELSE UNCHANGED <<event, set_transitions>>
    /\ UNCHANGED <<inputs, cfg, creds, net, task, subsys, handlers, delivered, pc,
                   termination, fault, printed, fatal, sock, milestones>>

\* The hub runs the handler of a pending signal: event.set()
RunHandler ==
    /\ Live /\ Blocked
    /\ \E s \in pending :
         /\ pending' = pending \ {s}
         /\ handler_runs' = handler_runs + 1
         /\ IF event = "unset"
            THEN /\ event' = "set"
                 /\ set_transitions' = set_transitions + 1
            ELSE UNCHANGED <<event, set_transitions>>
    /\ UNCHANGED <<inputs, cfg, creds, net, task, subsys, handlers, delivered, ctl>>

\* -------------------------------------------------------------------- Spec
Next ==
    \/ BindSocket
    \/ LoadAccounts
    \/ SelectAccount
    \/ PromptIndex
    \/ ReadPassword
    \/ UnlockFromFile
    \/ UnlockInteractive
    \/ ParseRpcEndpoint
    \/ ConstructBlockChainService
    \/ ConstructApp
    \/ SpawnRegistration
    \/ RegisterRegistryCall
    \/ RegisterRegistryReturn
    \/ StartApi
    \/ StartConsole
    \/ JoinRegistration
    \/ CreateEvent
    \/ InstallHandler
    \/ WaitReturn
    \/ StopCall
    \/ StopReturn
    \/ TaskStart
    \/ TaskFinish
    \/ DeliverSignal
    \/ RunHandler

Spec == Init /\ [][Next]_vars

\* ------------------------------------------------- narrower command lines
\* --rpccorsdomain values: empty, one domain, three domains, and domains
\* written with spaces around them or with a trailing comma.
CorsInputs ==
    { <<>>,
      <<"a">>,
      <<"a", ",", "b", ",", "c">>,
      <<"a", ",", " ", "b">>,
      <<" ", "a", " ">>,
      <<"a", ",">>,
      DefaultCors }

\* (--max-unresponsive-time, --send-ping-time) pairs
Timings ==
    { <<DefaultMaxUnresponsiveTime, DefaultSendPingTime>>,
      <<DefaultMaxUnresponsiveTime, DEFAULT_NAT_KEEPALIVE_TIMEOUT>>,
      <<DEFAULT_NAT_KEEPALIVE_RETRIES * DEFAULT_NAT_KEEPALIVE_RETRIES, DefaultSendPingTime>>,
      <<DefaultSendPingTime, DefaultMaxUnresponsiveTime>> }

\* One keystore account, a good password file or none, one endpoint; the
\* CORS domains and the protocol timings drawn from the given sets.
InitWith(corsdomains, timings) ==
    /\ keystore = <<1>>
    /\ address \in {NoAddress, 1}
    /\ password_file \in {NoPasswordFile, [given |-> TRUE, lines |-> <<Good>>]}
    /\ eth_rpc_endpoint = <<"n", ":", "8">>
    /\ rpc \in BOOLEAN
    /\ console \in BOOLEAN
    /\ rpccorsdomain \in corsdomains
    /\ \E t \in timings :
         /\ max_unresponsive_time = t[1]
         /\ send_ping_time = t[2]
    /\ Start

\* the runs over every CORS input and every timing pair
InitAssembly == InitWith(CorsInputs, Timings)

SpecAssembly == InitAssembly /\ [][Next]_vars

\* The runs with the default CORS domain and timings, under the scheduling
\* the gevent hub gives: a pending handler is run, event.wait() returns once
\* the event is set, run() goes on to call stop, and stop returns.
InitShutdown ==
    InitWith({DefaultCors}, {<<DefaultMaxUnresponsiveTime, DefaultSendPingTime>>})

SpecShutdown ==
    /\ InitShutdown
    /\ [][Next]_vars
    /\ WF_vars(RunHandler)
    /\ WF_vars(WaitReturn)
    /\ WF_vars(StopCall)
    /\ WF_vars(StopReturn)

\* ------------------------------------------------------------------ claims
AfterSpawn ==
    {"register_registry", "in_register_registry", "api", "console", "join",
     "event", "sigquit", "sigterm", "sigint", "wait", "stop", "stopping"}

AfterJoin == {"event", "sigquit", "sigterm", "sigint", "wait", "stop", "stopping"}

IsPrefix(s, t) == Len(s) <= Len(t) /\ SubSeq(t, 1, Len(s)) = s

\* C1: the interactive unlock loop makes at most UnlockTries + 1 = 4 attempts.
\* When every passphrase was wrong the loop ends only by exhaustion, after
\* exactly 4 attempts, with exit status 1 and no key; a 5th attempt is never
\* made; a correct passphrase ends the loop at once with the key of the
\* selected address.
C1_InteractiveUnlockBound ==
    /\ interactive_attempts <= UnlockTries + 1
    /\ (pc = "unlock_loop" => interactive_attempts <= UnlockTries)
    /\ (fatal = "ExhaustedRetries" =>
          /\ interactive_attempts = UnlockTries + 1
          /\ termination = "exit1"
          /\ privatekey_bin = NoAddress)
    /\ (interactive_attempts > 0 /\ privatekey_bin = NoAddress
          /\ pc = "done" /\ delivered = 0 => fatal = "ExhaustedRetries")
    /\ (interactive_attempts > 0 /\ privatekey_bin # NoAddress =>
          pc # "unlock_loop" /\ privatekey_bin = address)

C1_Witness ==
    /\ ~password_file.given
    /\ fatal = "ExhaustedRetries"
    /\ interactive_attempts = UnlockTries + 1
    /\ termination = "exit1"

\* C2: with a password file whose first line is not the correct password
\* (an empty first line included) exactly one unlock attempt is made, the
\* process ends with exit status 1, and the interactive loop is never entered.
C2_PasswordFileSingleAttempt ==
    (password_file.given /\ Len(password_file.lines) > 0
        /\ password_file.lines[1] # Good) =>
      /\ interactive_attempts = 0
      /\ unlock_attempts <= 1
      /\ privatekey_bin = NoAddress
      /\ (unlock_attempts = 1 => termination = "exit1")

\* C3: the registration greenlet is spawned before register_registry is
\* called, and neither the call, its return nor the start of the subsystems
\* waits for the greenlet: each is enabled whatever the greenlet's state.
C3_SpawnBeforeRegistryCall ==
    /\ (pc \in AfterSpawn => registry_event # "none" /\ spawn_count = 1)
    /\ (registry_registered => registry_event # "none")
    /\ (pc = "register_registry" =>
          registry_event = "spawned" /\ ENABLED RegisterRegistryCall)
    /\ (pc = "in_register_registry" => ENABLED RegisterRegistryReturn)
    /\ (pc = "api" => ENABLED StartApi)
    /\ (pc = "console" => ENABLED StartConsole)

C3_Witness ==
    /\ pc = "join"
    /\ registry_registered
    /\ api_server
    /\ console_started
    /\ registry_event = "running"

\* C4: from the creation of the shutdown event on, and so in the final wait,
\* the registration greenlet is dead (done or failed); a failed greenlet lets
\* the join return like a successful one.
C4_WaitOnlyAfterJoin ==
    /\ (pc \in AfterJoin => registry_event \in {"done", "failed"})
    /\ (pc = "join" /\ registry_event = "failed" => ENABLED JoinRegistration)

C4_Witness ==
    /\ pc = "wait"
    /\ registry_event = "failed"

\* C5: however many signals are delivered, the event goes from unset to set
\* once, every handler run leaves it set, and stop is invoked at most once,
\* only after the event was set.
C5_SetOnceStopOnce ==
    /\ set_transitions <= 1
    /\ stop_count <= 1
    /\ (event = "set") = (set_transitions = 1)
    /\ (handler_runs >= 1 => event = "set")
    /\ (stop_count = 1 => event = "set")
    /\ (pc \in {"stopping"} => stop_count = 1)

C5_Witness ==
    /\ handler_runs >= 2
    /\ set_transitions = 1
    /\ stop_count = 1
    /\ termination = "exit0"

\* C6: when run() has been left (by return, sys.exit(1) or an unhandled
\* exception) after binding the socket, the socket is closed.
C6_SocketClosedOnExit ==
    (termination \in {"exit0", "exit1", "unhandled"} /\ sock # "none") =>
      sock = "closed"

C6_Witness ==
    /\ termination = "exit1"
    /\ fatal = "RegistryLookupFailed"
    /\ sock = "closed"

\* C7 as stated: every fatal startup condition is caught, reported with a
\* printed message and ends the process with exit status 1.
C7_AllFatalCaught ==
    fatal # None =>
      /\ termination = "exit1"
      /\ fault = None
      /\ printed # {}

\* C7 amended: an incorrect password from the file, exhausted retries and a
\* registry lookup failure are reported with a printed message and sys.exit(1);
\* an empty keystore raises RuntimeError, which nothing catches and for which
\* nothing is printed by app(); the process never exits 0 after any of them.
C7_FatalHandling ==
    /\ (fatal = "IncorrectPassword" =>
          /\ termination = "exit1" /\ fault = None
          /\ "IncorrectPasswordInFile" \in printed)
    /\ (fatal = "ExhaustedRetries" =>
          /\ termination = "exit1" /\ fault = None
          /\ "ExhaustedUnlockAttempts" \in printed)
    /\ (fatal = "RegistryLookupFailed" =>
          /\ termination = "exit1" /\ fault = None
          /\ "RegistryLookupFailed" \in printed)
    /\ (fatal = "NoAccountsFound" =>
          /\ termination = "unhandled" /\ fault = "RuntimeError"
          /\ printed = {})
    /\ (fatal # None => termination # "exit0" /\ ~app_)

C7_Witness ==
    /\ fatal = "NoAccountsFound"
    /\ fault = "RuntimeError"
    /\ termination = "unhandled"

ClaimedOrder ==
    <<"CredentialsResolved", "NetworkResolved", "SocketBound",
      "NodeConstructed", "RegistrationSpawned", "SubsystemsStarted", "Running">>

ActualOrder ==
    <<"SocketBound", "CredentialsResolved", "NetworkResolved",
      "NodeConstructed", "RegistrationSpawned", "SubsystemsStarted", "Running">>

CredentialFailures == {"NoAccountsFound", "IncorrectPassword", "ExhaustedRetries"}

\* C8 as stated: the startup states are passed in the order Credentials,
\* Network, Socket, Node, Registration, Subsystems, Running; the socket is
\* bound only after the key was unlocked, and a run whose credential
\* resolution fails never binds a socket.
C8_ClaimedOrder ==
    /\ IsPrefix(milestones, ClaimedOrder)
    /\ (sock # "none" => privatekey_bin # NoAddress)
    /\ (fatal \in CredentialFailures => sock = "none")

\* C8 amended: the order is Socket, Credentials, Network, Node, Registration,
\* Subsystems, Running: the socket is bound before credential resolution
\* starts, so a run whose credential resolution fails has bound the socket
\* (and closed it on the way out).
C8_ActualOrder ==
    /\ IsPrefix(milestones, ActualOrder)
    /\ (pc \notin {"start", "done"} => sock = "open")
    /\ (privatekey_bin # NoAddress => sock # "none")
    /\ (fatal \in CredentialFailures => sock = "closed")

C8_Witness ==
    /\ pc = "wait"
    /\ milestones = ActualOrder
    /\ sock = "open"

\* C9: at most one registration greenlet is ever spawned and it invokes
\* register at most once; once the orchestrator is past the spawn exactly one
\* was spawned, once it is past the join register was invoked exactly once,
\* and a failed registration is neither respawned nor retried.
C9_RegisteredOnce ==
    /\ spawn_count <= 1
    /\ register_calls <= 1
    /\ (pc \in AfterSpawn => spawn_count = 1)
    /\ (pc \in AfterJoin => register_calls = 1)
    /\ (registry_event = "none") = (spawn_count = 0)
    /\ (registry_event \in {"running", "done", "failed"}) = (register_calls = 1)

C9_Witness ==
    /\ pc = "wait"
    /\ registry_event = "failed"
    /\ spawn_count = 1
    /\ register_calls = 1

\* an endpoint with neither prefix nor ':'
BareHost(s) == ~PrefixBindsPort(s) /\ ~Contains(s, ":")

\* C10: for an RPC endpoint with neither an http(s):// prefix nor a ':',
\* app() fails with MalformedEndpoint before the blockchain service is
\* constructed, never with another fault such as an unbound rpc_port.
C10_BareHostMalformedEndpoint ==
    (BareHost(eth_rpc_endpoint) /\ rpc_host # <<>> /\ pc = "done"
        /\ delivered = 0) =>
      /\ fault = "MalformedEndpoint"
      /\ ~blockchain_service

\* C11: after a registry lookup failure the process has ended with exit
\* status 1 and nothing was started: no blockchain service, no App, no
\* registration greenlet, no register_registry call, no API server, no console.
C11_RegistryFailureStartsNothing ==
    fatal = "RegistryLookupFailed" =>
      /\ termination = "exit1"
      /\ pc = "done"
      /\ ~blockchain_service
      /\ ~app_
      /\ spawn_count = 0 /\ registry_event = "none" /\ register_calls = 0
      /\ ~registry_registered
      /\ ~api_server
      /\ ~console_started

C11_Witness ==
    /\ fatal = "RegistryLookupFailed"
    /\ "RegistryLookupFailed" \in printed
    /\ privatekey_bin # NoAddress
    /\ rpc_port_bound
    /\ termination = "exit1"

AfterApi == {"console", "join"} \cup AfterJoin

AfterConsole == {"join"} \cup AfterJoin

\* C12: the API server is spawned iff --rpc and the console is started iff
\* --console, and either only once register_registry has returned.
C12_SubsystemsFollowFlags ==
    /\ (api_server => rpc /\ registry_registered)
    /\ (console_started => console /\ registry_registered)
    /\ (pc \in AfterApi => api_server = rpc)
    /\ (pc \in AfterConsole => console_started = console)
    /\ (pc \in {"register_registry", "in_register_registry"} =>
          ~api_server /\ ~console_started /\ ~registry_registered)

C12_Witness ==
    /\ pc = "join"
    /\ registry_registered
    /\ ~rpc /\ ~api_server
    /\ console /\ console_started

\* C18: stop is invoked only with the shutdown event set and the registration
\* greenlet dead; the event and the handlers do not exist before the join has
\* returned, so a signal delivered earlier sets nothing.
C18_StopAfterJoinAndEvent ==
    /\ (stop_count >= 1 =>
          event = "set" /\ registry_event \in {"done", "failed"})
    /\ (registry_event \notin {"done", "failed"} =>
          /\ event = "none" /\ handlers = {} /\ pending = {}
          /\ set_transitions = 0 /\ handler_runs = 0 /\ stop_count = 0)
    /\ (handlers # {} \/ event # "none" => registry_event \in {"done", "failed"})

C18_Witness ==
    /\ delivered >= 1
    /\ registry_event = "running"
    /\ pc = "done"
    /\ event = "none"
    /\ stop_count = 0

\* C19: app_.stop is called and returns with the socket open; with the App
\* constructed, the socket is closed only by the return that follows stop or
\* by an exception leaving the scope.
C19_SocketOutlivesStop ==
    /\ (pc \in {"stop", "stopping"} => sock = "open")
    /\ (termination = "exit0" => stop_count = 1 /\ sock = "closed")
    /\ (app_ /\ sock = "closed" =>
          \/ termination = "exit0" /\ stop_count = 1
          \/ termination = "unhandled" /\ fault # None)
    /\ (app_ /\ termination = "running" => sock = "open")

C19_Witness ==
    /\ pc = "stopping"
    /\ stop_count = 1
    /\ sock = "open"
    /\ app_

\* C13: a private key exists only after a successful unlock of the selected
\* keystore address: the key, the config entry, the blockchain service and the
\* App all imply it, and after a failed credential resolution none of them
\* exists.
C13_KeyOnlyAfterUnlock ==
    /\ (privatekey_bin # NoAddress =>
          /\ privatekey_bin = address
          /\ \E i \in 1..Len(keystore) : keystore[i] = address
          /\ unlock_attempts >= 1
          /\ (interactive_attempts = 0 => password = Good))
    /\ (config.privatekey_hex # NoAddress =>
          config.privatekey_hex = privatekey_bin)
    /\ (blockchain_service \/ app_ =>
          privatekey_bin # NoAddress /\ config.privatekey_hex = privatekey_bin)
    /\ (fatal \in CredentialFailures =>
          /\ privatekey_bin = NoAddress
          /\ config.privatekey_hex = NoAddress
          /\ ~blockchain_service /\ ~app_)

C13_Witness ==
    /\ app_
    /\ password = Good
    /\ interactive_attempts = 0
    /\ privatekey_bin # NoAddress
    /\ config.privatekey_hex = privatekey_bin

InKeystore(a) == \E i \in 1..Len(keystore) : keystore[i] = a

\* C14: an --address found in the keystore is kept and no index is asked for;
\* otherwise every out-of-range index (negative or >= the number of accounts)
\* leads to another prompt, which is always possible, and the first in-range
\* index selects keystore[idx]; nothing else changes the address.
C14_AccountSelection ==
    /\ [](pc = "prompt" => ENABLED PromptIndex)
    /\ [][ /\ (pc = "select" /\ pc' # "done" =>
                 /\ address' = address
                 /\ prompts' = 0
                 /\ (InKeystore(address) <=> pc' = "password")
                 /\ (~InKeystore(address) <=> pc' = "prompt"))
           /\ (pc = "prompt" => pc' \in {"prompt", "password", "done"})
           /\ (pc = "prompt" /\ pc' = "password" =>
                 /\ idx' >= 0 /\ idx' < Len(keystore)
                 /\ address' = keystore[idx' + 1]
                 /\ prompts' = prompts + 1)
           /\ (pc = "prompt" /\ pc' = "prompt" =>
                 /\ (idx' < 0 \/ idx' >= Len(keystore))
                 /\ address' = address
                 /\ prompts' = prompts + 1)
           /\ (pc # "prompt" => address' = address /\ prompts' = prompts)
         ]_vars

C14_Witness ==
    /\ pc = "password"
    /\ prompts >= 2
    /\ Len(keystore) >= 2
    /\ idx = 1
    /\ address = keystore[2]

\* ---------------------------------------------------------------------- C15
FormatDigit(d) ==
    CASE d = 0 -> "0" [] d = 1 -> "1" [] d = 2 -> "2" [] d = 3 -> "3"
      [] d = 4 -> "4" [] d = 5 -> "5" [] d = 6 -> "6" [] d = 7 -> "7"
      [] d = 8 -> "8" [] d = 9 -> "9"

\* str(n) of a natural number
RECURSIVE FormatInt(_)
FormatInt(n) ==
    IF n < 10 THEN <<FormatDigit(n)>>
    ELSE FormatInt(n \div 10) \o <<FormatDigit(n % 10)>>

\* the endpoint with a leading http:// or https:// taken off
Remainder(s) ==
    IF IsPrefix(HttpPrefix, s) THEN SubSeq(s, 8, Len(s))
    ELSE IF IsPrefix(HttpsPrefix, s) THEN SubSeq(s, 9, Len(s))
    ELSE s

EndpointParsed == pc \in {"blockchain", "construct_app"} \cup AfterSpawn

\* C15: once the endpoint is parsed, a prefixed endpoint whose remainder has
\* no ':' gets the remainder as host and port 80 (http://) or 443 (https://);
\* whenever the remainder has a ':', prefixed or not, host and port are
\* exactly the ones written: host ":" port reads back as the remainder, so
\* no default takes the place of an explicit port.
C15_RpcEndpointParsing ==
    EndpointParsed =>
        LET rest == Remainder(eth_rpc_endpoint)
            explicit == \E i \in 1..Len(rest) : rest[i] = ":"
        IN  /\ IsPrefix(HttpPrefix, eth_rpc_endpoint) /\ ~explicit
                => rpc_port_bound /\ rpc_port = 80 /\ rpc_host = rest
            /\ IsPrefix(HttpsPrefix, eth_rpc_endpoint) /\ ~explicit
                => rpc_port_bound /\ rpc_port = 443 /\ rpc_host = rest
            /\ explicit
                => /\ rpc_port_bound
                   /\ rpc_host \o <<":">> \o FormatInt(rpc_port) = rest
            /\ eth_rpc_endpoint = HttpPrefix \o <<"n", ":", "8", "1">>
                => rpc_host = <<"n">> /\ rpc_port = 81
            /\ eth_rpc_endpoint = <<"n", ":", "8">>
                => rpc_host = <<"n">> /\ rpc_port = 8

C15_Witness ==
    /\ EndpointParsed
    /\ eth_rpc_endpoint = HttpsPrefix \o <<"n">>
    /\ rpc_host = <<"n">>
    /\ rpc_port = 443

\* ---------------------------------------------------------------------- C16
\* str.strip() of spaces
RECURSIVE Strip(_)
Strip(s) ==
    IF Len(s) = 0 THEN s
    ELSE IF s[1] = " " THEN Strip(SubSeq(s, 2, Len(s)))
    ELSE IF s[Len(s)] = " " THEN Strip(SubSeq(s, 1, Len(s) - 1))
    ELSE s

\* ','.join(l)
RECURSIVE Join(_)
Join(l) ==
    IF Len(l) = 0 THEN <<>>
    ELSE IF Len(l) = 1 THEN l[1]
    ELSE l[1] \o <<",">> \o Join(SubSeq(l, 2, Len(l)))

\* C16 as stated: the domain list is the comma-separated segments of the
\* input, each without its surrounding spaces, and empty for an empty input.
C16_SegmentsTrimmed ==
    pc \in AfterApi =>
        /\ rpccorsdomain = <<>> => domain_list = <<>>
        /\ rpccorsdomain = <<"a", ",", "b", ",", "c">>
            => domain_list = << <<"a">>, <<"b">>, <<"c">> >>
        /\ \A i \in 1..Len(domain_list) : domain_list[i] = Strip(domain_list[i])

\* C16 (amended): the domain list is the comma-separated segments of the
\* input, in order and exactly as written, spaces included: joining the list
\* with ',' gives the input back, no entry holds a ',', an empty input gives
\* the empty list and "a,b,c" gives ["a","b","c"].
C16_SegmentsVerbatim ==
    pc \in AfterApi =>
        /\ rpccorsdomain = <<>> => domain_list = <<>>
        /\ rpccorsdomain # <<>> => Len(domain_list) >= 1
        /\ Join(domain_list) = rpccorsdomain
        /\ \A i \in 1..Len(domain_list) :
             \A j \in 1..Len(domain_list[i]) : domain_list[i][j] # ","
        /\ rpccorsdomain = <<"a", ",", "b", ",", "c">>
            => domain_list = << <<"a">>, <<"b">>, <<"c">> >>
        /\ rpccorsdomain = <<"a", ",", " ", "b">>
            => domain_list = << <<"a">>, <<" ", "b">> >>

C16_Witness ==
    /\ pc \in AfterApi
    /\ rpccorsdomain = <<"a", ",", " ", "b">>
    /\ domain_list = << <<"a">>, <<" ", "b">> >>

\* ---------------------------------------------------------------------- C17
ShutDown == termination = "exit0" /\ sock = "closed" /\ stop_count = 1

\* C17: with the hub scheduling fairly and stop returning, a signal pending
\* while the orchestrator is in the final wait leads to stop being called
\* (the socket still open, the process still running), and from there to the
\* socket closed and exit status 0; as long as no handler has run the wait
\* cannot return and stop has not been called.
C17_SignalLeadsToExit ==
    /\ (pc = "wait" /\ pending # {}) ~> (pc = "stopping" /\ stop_count = 1)
    /\ (pc = "stopping") ~> ShutDown
    /\ [](pc = "stopping" => sock = "open" /\ termination = "running")
    /\ [](handler_runs = 0 => stop_count = 0)
    /\ [](pc = "wait" /\ handler_runs = 0 => ~ENABLED WaitReturn)

C17_Witness ==
    /\ pc = "wait"
    /\ pending = {"SIGTERM"}
    /\ event = "unset"
    /\ handlers = SIGNALS

\* ---------------------------------------------------------------------- C20
\* C20 as stated: App.DEFAULT_CONFIG, its protocol record included, keeps
\* the values it had before app() assembled a configuration.
C20_DefaultsUntouched ==
    /\ DEFAULT_CONFIG = DefaultConfigDict
    /\ heap[DEFAULT_CONFIG.protocol] = DefaultProtocolDict

====
